---- MODULE Spec2Model ----
(***************************************************************************)
(* Model of the three Flask gateways app-gemini.py, app-groq.py and        *)
(* app-mercury.py: the startup credential check, the process-wide system   *)
(* prompt, the /change-prompt route, the catch-all route and the pipeline  *)
(* path -> topic -> prompt -> upstream call -> sanitised response.         *)
(*                                                                         *)
(* Text is modelled as a sequence of characters (one-character strings).   *)
(* Long fixed literals of the source that no operation looks into are kept *)
(* as one element each.                                                    *)
(***************************************************************************)
EXTENDS Naturals, Sequences, FiniteSets

VARIABLES
  variant,                \* which of the three programs runs
  env_key,                \* the API-key environment variable of the process
  pc,                     \* "startup", "exited" or "serving"
  app_created,            \* app = Flask(__name__) has been executed
  console,                \* what the startup check printed
  current_system_prompt,  \* the module-level global
  req,                    \* per worker thread: the request it is handling
  started,                \* number of requests received so far
  upstream_calls,         \* number of upstream call attempts made so far
  catch_answered,         \* history: number of catch-all requests answered
  last_post,              \* history: value assigned by the latest POST
  fn_arg,                 \* input of the pure function under check
  fn_res,                 \* its results
  fn_pc                   \* position of the pure-function check

vars == <<variant, env_key, pc, app_created, console, current_system_prompt,
          req, started, upstream_calls, catch_answered, last_post, fn_arg, fn_res, fn_pc>>

server_vars == <<env_key, pc, app_created, console, current_system_prompt,
                 req, started, upstream_calls, catch_answered, last_post>>

fn_vars == <<fn_arg, fn_res, fn_pc>>

Variants == {"gemini", "groq", "mercury"}

----------------------------------------------------------------------------
(* Bounds.                                                                 *)

MaxPieces == 3

MaxPathLen == 5

MaxRequests == 3

----------------------------------------------------------------------------
(* Python string operations, on sequences of characters.                   *)

\* s.startswith(p)
StartsWith(s, p) == Len(p) <= Len(s) /\ SubSeq(s, 1, Len(p)) = p

\* s.find(sub) + 1: the 1-based index of the first occurrence, 0 if none
RECURSIVE FindFrom(_, _, _)
FindFrom(s, sub, i) ==
  IF i + Len(sub) - 1 > Len(s) THEN 0
  ELSE IF SubSeq(s, i, i + Len(sub) - 1) = sub THEN i
  ELSE FindFrom(s, sub, i + 1)

Find(s, sub) == FindFrom(s, sub, 1)

\* sub in s
Contains(s, sub) == Find(s, sub) # 0

\* s.replace(old, new): left to right, non-overlapping, in one pass
RECURSIVE Replace(_, _, _)
Replace(s, old, new) ==
  IF Len(s) < Len(old) THEN s
  ELSE IF SubSeq(s, 1, Len(old)) = old
       THEN new \o Replace(SubSeq(s, Len(old) + 1, Len(s)), old, new)
       ELSE <<Head(s)>> \o Replace(Tail(s), old, new)

\* s.split(sep, 1)[1]: what follows the first occurrence of sep
AfterFirst(s, sep) == SubSeq(s, Find(s, sep) + Len(sep), Len(s))

Whitespace == {" ", "\n", "\t"}

RECURSIVE LStrip(_)
LStrip(s) ==
  IF s # <<>> /\ Head(s) \in Whitespace THEN LStrip(Tail(s)) ELSE s

RECURSIVE RStrip(_)
RStrip(s) ==
  IF s # <<>> /\ s[Len(s)] \in Whitespace
  THEN RStrip(SubSeq(s, 1, Len(s) - 1)) ELSE s

\* s.strip()
Strip(s) == RStrip(LStrip(s))

\* the concatenation of a sequence of texts
RECURSIVE Flatten(_)
Flatten(ss) == IF ss = <<>> THEN <<>> ELSE Head(ss) \o Flatten(Tail(ss))

\* all sequences over S of length 0..n
SeqsUpTo(S, n) == UNION {[1..k -> S] : k \in 0..n}

----------------------------------------------------------------------------
(* Literals of the source.                                                 *)

\* the backtick character, written by name
BT == "BACKTICK"

FENCE_HTML == <<BT, BT, BT, "h", "t", "m", "l">>

FENCE == <<BT, BT, BT>>

DOCTYPE == <<"<", "!", "D", "O", "C", "T", "Y", "P", "E", " ", "h", "t", "m", "l", ">">>

HTML_TAG == <<"<", "h", "t", "m", "l">>

----------------------------------------------------------------------------
(* Response Sanitizer: the success branch of generate_html_with_llm.       *)

\* a removal that forgets the second replace call
RemoveFences_HtmlFenceOnly(s) == Replace(s, FENCE_HTML, <<>>)

\* the two chained replace calls: the html fence first, then the bare fence
RemoveFences(s) == Replace(Replace(s, FENCE_HTML, <<>>), FENCE, <<>>)

\* "Remove any explanatory text before HTML" (gemini, groq)
PrefixTrim(s) ==
  IF Contains(s, DOCTYPE) THEN DOCTYPE \o AfterFirst(s, DOCTYPE)
  ELSE IF Contains(s, HTML_TAG) THEN HTML_TAG \o AfterFirst(s, HTML_TAG)
  ELSE s

\* a sanitizer that forgets the leading strip() call
Sanitize_NoStrip(v, raw) ==
  IF v = "mercury" THEN RemoveFences(raw)
  ELSE PrefixTrim(RemoveFences(raw))

\* the text a variant returns for the raw upstream text
Sanitize(v, raw) ==
  IF v = "mercury" THEN RemoveFences(Strip(raw))
  ELSE PrefixTrim(RemoveFences(Strip(raw)))

----------------------------------------------------------------------------
(* Specification of the sanitizer as a pure function: the raw text is any  *)
(* concatenation of at most MaxPieces pieces.                              *)

Pieces ==
  { FENCE_HTML, FENCE, <<BT>>, <<"\n">>, <<" ">>, DOCTYPE, HTML_TAG,
    <<"x">>, <<"<", "h", "t">>, <<"m", "l">> }

RawTexts == {Flatten(ps) : ps \in SeqsUpTo(Pieces, MaxPieces)}

ServerIdle ==
  /\ env_key = [set |-> FALSE, value |-> ""]
  /\ pc = "startup"
  /\ app_created = FALSE
  /\ console = "none"
  /\ current_system_prompt = <<>>
  /\ req = <<>>
  /\ started = 0
  /\ upstream_calls = 0
  /\ catch_answered = 0
  /\ last_post = <<>>

SanInit ==
  /\ variant \in Variants
  /\ fn_arg \in RawTexts
  /\ fn_res = <<>>
  /\ fn_pc = "in"
  /\ ServerIdle

SanOnce ==
  /\ fn_pc = "in"
  /\ fn_res' = <<Sanitize(variant, fn_arg)>>
  /\ fn_pc' = "once"
  /\ UNCHANGED <<variant, fn_arg, server_vars>>

SanTwice ==
  /\ fn_pc = "once"
  /\ fn_res' = Append(fn_res, Sanitize(variant, fn_res[1]))
  /\ fn_pc' = "twice"
  /\ UNCHANGED <<variant, fn_arg, server_vars>>

SanNext == SanOnce \/ SanTwice

SpecSanitize == SanInit /\ [][SanNext]_vars

----------------------------------------------------------------------------
(* Path-to-topic translation and the page prompt of catch_all.             *)

HOME == <<"h", "o", "m", "e">>

\* a translation that forgets the second replace call
PageName_SlashOnly(path) ==
  IF path = <<>> THEN HOME ELSE Replace(path, <<"/">>, <<" ">>)

\* page_name: "home" for the empty path, else both replace calls
PageName(path) ==
  IF path = <<>> THEN HOME
  ELSE Replace(Replace(path, <<"/">>, <<" ">>), <<"_">>, <<" ">>)

\* str.upper() on the characters of the model
UpperChar(c) ==
  CASE c = "a" -> "A" [] c = "b" -> "B" [] c = "c" -> "C"
    [] c = "h" -> "H" [] c = "o" -> "O" [] c = "m" -> "M" [] c = "e" -> "E"
    [] OTHER -> c

Upper(s) == [i \in 1..Len(s) |-> UpperChar(s[i])]

\* the f-string prompt of catch_all, its fixed text kept as whole elements
PagePrompt(v, page_name) ==
  IF v = "groq"
  THEN <<"CREATE AN EXCEPTIONAL ", "'">> \o Upper(page_name)
       \o <<"'", " PAGE: CONTENT REQUIREMENTS: - Generate rich, engaging content relevant to ", "'">>
       \o page_name
       \o <<"'", " [...] Make this the most impressive, modern TUI experience possible!">>
  ELSE <<"Generate the HTML for a page about ", "'">> \o page_name
       \o <<"'", ". The page should have a clean and modern design. [...] The page should feel like a real website with functional navigation.">>

PathChars == {"a", "b", "c", "Q", "/", "_"}

\* the paths the router hands to catch_all: no leading slash, and no two
\* slashes in a row (the router merges them)
Paths ==
  { p \in SeqsUpTo(PathChars, MaxPathLen) :
      /\ (p # <<>> => p[1] # "/")
      /\ \A i \in 1..(Len(p) - 1) : ~(p[i] = "/" /\ p[i + 1] = "/") }

PathInit ==
  /\ variant \in Variants
  /\ fn_arg \in Paths
  /\ fn_res = <<>>
  /\ fn_pc = "in"
  /\ ServerIdle

PathTranslate ==
  /\ fn_pc = "in"
  /\ fn_res' = [page_name |-> PageName(fn_arg),
                prompt |-> PagePrompt(variant, PageName(fn_arg))]
  /\ fn_pc' = "out"
  /\ UNCHANGED <<variant, fn_arg, server_vars>>

PathNext == PathTranslate

SpecPath == PathInit /\ [][PathNext]_vars

\* C4: the topic is "home" for the empty path; otherwise it has the length
\* of the path, a space wherever the path has a slash or an underscore and
\* the path's own character everywhere else; and the page prompt carries
\* that topic between quotes.
C4_PathToTopic ==
  fn_pc = "out" =>
    LET topic == fn_res.page_name
    IN  /\ fn_arg = <<>> => topic = HOME
        /\ fn_arg # <<>> =>
             /\ Len(topic) = Len(fn_arg)
             /\ \A i \in 1..Len(fn_arg) :
                  topic[i] = IF fn_arg[i] \in {"/", "_"} THEN " " ELSE fn_arg[i]
        /\ Contains(fn_res.prompt, <<"'">> \o topic \o <<"'">>)

\* C4 witness: the path a/b_c has been translated to the topic "a b c"
C4_Witness ==
  /\ fn_pc = "out"
  /\ fn_arg = <<"a", "/", "b", "_", "c">>
  /\ fn_res.page_name = <<"a", " ", "b", " ", "c">>

----------------------------------------------------------------------------
(* The server: startup, the prompt store and the two routes.               *)

Threads == {"t1", "t2"}

PLACEHOLDER_KEY == "your-fallback-api-key-here"

\* what the process environment may hold for the API-key variable
EnvValues ==
  { [set |-> FALSE, value |-> ""],
    [set |-> TRUE, value |-> ""],
    [set |-> TRUE, value |-> PLACEHOLDER_KEY],
    [set |-> TRUE, value |-> "sk-live-0123456789abcdef"] }

\* os.environ.get(NAME, "")
ApiKey(env) == IF env.set THEN env.value ELSE ""

\* the literal each variant compares its key with, besides testing it empty
RejectedLiteral(v) == IF v = "gemini" THEN PLACEHOLDER_KEY ELSE ""

\* a check that only tests the key for emptiness
KeyCheckFails_EmptyOnly(v, key) == key = ""

\* the condition of the startup if: not KEY or KEY == <literal>
KeyCheckFails(v, key) == key = "" \/ key = RejectedLiteral(v)

\* the variants whose failed check calls exit()
ExitsOnBadKey(v) == v \in {"gemini", "mercury"}

\* the initial value of the global current_system_prompt
DefaultPrompt(v) ==
  IF v = "groq"
  THEN <<"You are an elite UI/UX architect and full-stack developer [...] Make every page feel like a premium, modern web application.">>
  ELSE <<"You are a professional web developer. [...] Make sure all buttons are functional and lead to relevant pages.">>

\* the values of the form field new_prompt: missing, empty, or a text
Forms ==
  { [present |-> FALSE, value |-> <<>>],
    [present |-> TRUE, value |-> <<>>],
    [present |-> TRUE, value |-> <<"X">>],
    [present |-> TRUE, value |-> <<" ", "Y", "Z">>] }

NoForm == [present |-> FALSE, value |-> <<>>]

\* a test that only asks whether the field was sent
Truthy_NotNone(form) == form.present

\* if new_prompt: (None and the empty string are both false)
Truthy(form) == form.present /\ form.value # <<>>

\* a store that assigns whatever the form holds
StoredAfterPost_AlwaysAssign(cur, form) == form.value

\* a store that appends the new text to the old one
StoredAfterPost_Appends(cur, form) ==
  IF Truthy(form) THEN cur \o form.value ELSE cur

\* the global after the POST branch of change_prompt
StoredAfterPost(cur, form) == IF Truthy(form) THEN form.value ELSE cur

CONFIRM_PAGE ==
  <<"<!DOCTYPE html> [...] <h1>System Prompt Updated Successfully!</h1> [...] </html>">>

\* a form that shows the default prompt instead of the stored one
FormPage_Default(prompt) ==
  <<"<!DOCTYPE html> [...] <textarea name=new_prompt [...]>">>
  \o <<"You are a professional web developer. [...]">>
  \o <<"</textarea> [...] </html>">>

\* the form page, with the stored prompt interpolated unescaped
FormPage(prompt) ==
  <<"<!DOCTYPE html> [...] <textarea name=new_prompt [...]>">>
  \o prompt
  \o <<"</textarea> [...] </html>">>

\* what Flask sends for a returned str, and for Response(.., mimetype='text/html')
HtmlResponse(body) == [status |-> 200, mimetype |-> "text/html", body |-> body]

NoResponse == [status |-> 0, mimetype |-> "", body |-> <<>>]

SEPARATOR == <<"\n\n---USER REQUEST---\n">>

\* full_prompt
FullPrompt(system_prompt, page_prompt) ==
  system_prompt \o SEPARATOR \o page_prompt

GEMINI_PREAMBLE ==
  <<"Generate ONLY complete, functional HTML code. [...] No markdown formatting.\n\n">>

GROQ_SYSTEM_MESSAGE ==
  <<"You are an elite UI/UX architect. Generate ONLY complete, functional HTML code. [...] No markdown formatting.">>

\* the messages handed to the upstream client
UpstreamRequest(v, system_prompt, page_prompt) ==
  CASE v = "gemini" ->
         <<[role |-> "prompt",
            content |-> GEMINI_PREAMBLE \o FullPrompt(system_prompt, page_prompt)]>>
    [] v = "groq" ->
         <<[role |-> "system", content |-> GROQ_SYSTEM_MESSAGE],
           [role |-> "user", content |-> FullPrompt(system_prompt, page_prompt)]>>
    [] v = "mercury" ->
         <<[role |-> "user", content |-> FullPrompt(system_prompt, page_prompt)]>>

\* the message that carries full_prompt
UserContent(sent) == sent[Len(sent)].content

HTML_DOC == DOCTYPE \o HTML_TAG \o <<">", "<", "/", "h", "t", "m", "l", ">">>

\* the document wrapped in a markdown html fence
WRAPPED_DOC == FENCE_HTML \o <<"\n">> \o HTML_DOC \o <<"\n">> \o FENCE

UpstreamTexts ==
  { WRAPPED_DOC,
    <<"x", " ">> \o HTML_DOC,
    <<" ", "h", "i", "\n">> }

NoOutcome == [kind |-> "none", text |-> <<>>, exc |-> <<>>, code |-> ""]

\* how the upstream call can end: a text, an exception raised by the client,
\* a reply whose body lacks the expected fields, or (mercury, which checks
\* the status itself) a status other than 200
Outcomes(v) ==
  {[kind |-> "ok", text |-> t, exc |-> <<>>, code |-> "200"] : t \in UpstreamTexts}
  \cup {[kind |-> "raise", text |-> <<>>, exc |-> <<"Connection timed out">>, code |-> ""]}
  \cup {[kind |-> "malformed", text |-> <<>>, exc |-> <<>>, code |-> "200"]}
  \cup (IF v = "mercury"
        THEN {[kind |-> "status", text |-> <<>>, exc |-> <<>>, code |-> c] :
                c \in {"401", "500"}}
        ELSE {})

\* str(e) of the exception raised while reading a malformed reply
MalformedExcText(v) ==
  CASE v = "gemini" -> <<"Invalid operation: response.text requires a valid Part">>
    [] v = "groq" -> <<"list index out of range">>
    [] v = "mercury" -> <<"'choices'">>

VendorName(v) ==
  CASE v = "gemini" -> "Google Gemini"
    [] v = "groq" -> "Groq"
    [] v = "mercury" -> "Inception Labs"

ERROR_HEADING == <<"<h1>Error:">>

\* the return of the except branch
ConnectErrorBody(v, exc) ==
  ERROR_HEADING \o <<" Could not connect to the ", VendorName(v), " API</h1><p>">>
  \o exc \o <<"</p>">>

\* the return of the else branch of the status check (mercury)
StatusErrorBody(code) ==
  ERROR_HEADING \o <<" API request failed</h1><p>Status code: ", code, "</p>">>

\* a helper that reads the body without checking the status first
GenerateHtml_StatusUnchecked(v, outcome) ==
  CASE outcome.kind = "ok" -> Sanitize(v, outcome.text)
    [] outcome.kind = "raise" -> ConnectErrorBody(v, outcome.exc)
    [] outcome.kind \in {"malformed", "status"} ->
         ConnectErrorBody(v, MalformedExcText(v))

\* the return value of generate_html_with_llm for each end of the call
GenerateHtml(v, outcome) ==
  CASE outcome.kind = "ok" -> Sanitize(v, outcome.text)
    [] outcome.kind = "raise" -> ConnectErrorBody(v, outcome.exc)
    [] outcome.kind = "malformed" -> ConnectErrorBody(v, MalformedExcText(v))
    [] outcome.kind = "status" -> StatusErrorBody(outcome.code)

RequestPaths == {<<>>, <<"a", "/", "b", "_", "c">>}

IdleReq ==
  [pc |-> "idle", id |-> 0, kind |-> "none", form |-> NoForm, path |-> <<>>,
   page_prompt |-> <<>>, sent |-> <<>>, outcome |-> NoOutcome,
   response |-> NoResponse]

Init ==
  /\ variant \in Variants
  /\ env_key \in EnvValues
  /\ pc = "startup"
  /\ app_created = FALSE
  /\ console = "none"
  /\ current_system_prompt = <<>>
  /\ req = [t \in Threads |-> IdleReq]
  /\ started = 0
  /\ upstream_calls = 0
  /\ catch_answered = 0
  /\ last_post = <<>>
  /\ fn_arg = <<>>
  /\ fn_res = <<>>
  /\ fn_pc = "none"

\* the module body, top to bottom, and app.run()
Startup ==
  /\ pc = "startup"
  /\ LET bad == KeyCheckFails(variant, ApiKey(env_key))
     IN  IF bad /\ ExitsOnBadKey(variant)
         THEN /\ console' = "error"
              /\ pc' = "exited"
              /\ UNCHANGED <<app_created, current_system_prompt>>
         ELSE /\ console' = (IF bad THEN "warning" ELSE "using")
              /\ app_created' = TRUE
              /\ current_system_prompt' = DefaultPrompt(variant)
              /\ pc' = "serving"
  /\ UNCHANGED <<variant, env_key, req, started, upstream_calls, catch_answered, last_post, fn_vars>>

\* thread t is free to take the next request
CanAccept(t) ==
  /\ pc = "serving"
  /\ req[t].pc \in {"idle", "done"}
  /\ started < MaxRequests

\* GET /change-prompt
GetChangePrompt(t) ==
  /\ CanAccept(t)
  /\ started' = started + 1
  /\ req' = [req EXCEPT ![t] =
               [IdleReq EXCEPT !.pc = "done", !.id = started + 1, !.kind = "GET",
                  !.response = HtmlResponse(FormPage(current_system_prompt))]]
  /\ UNCHANGED <<variant, env_key, pc, app_created, console,
                 current_system_prompt, upstream_calls, catch_answered, last_post, fn_vars>>

\* POST /change-prompt
PostChangePrompt(t, form) ==
  /\ CanAccept(t)
  /\ started' = started + 1
  /\ current_system_prompt' = StoredAfterPost(current_system_prompt, form)
  /\ last_post' = IF Truthy(form) THEN form.value ELSE last_post
  /\ req' = [req EXCEPT ![t] =
               [IdleReq EXCEPT !.pc = "done", !.id = started + 1, !.kind = "POST",
                  !.form = form,
                  !.response =
                    IF Truthy(form) THEN HtmlResponse(CONFIRM_PAGE)
                    ELSE HtmlResponse(FormPage(current_system_prompt'))]]
  /\ UNCHANGED <<variant, env_key, pc, app_created, console, upstream_calls,
                 catch_answered, fn_vars>>

\* catch_all up to the call of generate_html_with_llm
CatchAllReceive(t, path) ==
  /\ CanAccept(t)
  /\ started' = started + 1
  /\ req' = [req EXCEPT ![t] =
               [IdleReq EXCEPT !.pc = "compose", !.id = started + 1, !.kind = "catch",
                  !.path = path,
                  !.page_prompt = PagePrompt(variant, PageName(path))]]
  /\ UNCHANGED <<variant, env_key, pc, app_created, console,
                 current_system_prompt, upstream_calls, catch_answered, last_post, fn_vars>>

\* a helper whose system prompt was bound when the module was loaded
CallUpstream_DefaultBound(t) ==
  /\ pc = "serving"
  /\ req[t].pc = "compose"
  /\ req' = [req EXCEPT ![t].pc = "upstream",
                        ![t].sent = UpstreamRequest(variant, DefaultPrompt(variant),
                                                    req[t].page_prompt)]
  /\ upstream_calls' = upstream_calls + 1
  /\ UNCHANGED <<variant, env_key, pc, app_created, console,
                 current_system_prompt, started, catch_answered, last_post, fn_vars>>

\* generate_html_with_llm reads the global, builds the prompt and calls out
CallUpstream(t) ==
  /\ pc = "serving"
  /\ req[t].pc = "compose"
  /\ req' = [req EXCEPT ![t].pc = "upstream",
                        ![t].sent = UpstreamRequest(variant, current_system_prompt,
                                                    req[t].page_prompt)]
  /\ upstream_calls' = upstream_calls + 1
  /\ UNCHANGED <<variant, env_key, pc, app_created, console,
                 current_system_prompt, started, catch_answered, last_post, fn_vars>>

\* a helper that calls again when the call failed
UpstreamReturns_Retry(t, outcome) ==
  /\ pc = "serving"
  /\ req[t].pc = "upstream"
  /\ IF outcome.kind = "ok"
     THEN /\ req' = [req EXCEPT ![t].pc = "done",
                                ![t].outcome = outcome,
                                ![t].response =
                                  HtmlResponse(GenerateHtml(variant, outcome))]
          /\ catch_answered' = catch_answered + 1
     ELSE /\ req' = [req EXCEPT ![t].pc = "compose"]
          /\ UNCHANGED catch_answered
  /\ UNCHANGED <<variant, env_key, pc, app_created, console,
                 current_system_prompt, started, upstream_calls, last_post, fn_vars>>

\* the call ends; the helper returns and catch_all answers
UpstreamReturns(t, outcome) ==
  /\ pc = "serving"
  /\ req[t].pc = "upstream"
  /\ req' = [req EXCEPT ![t].pc = "done",
                        ![t].outcome = outcome,
                        ![t].response = HtmlResponse(GenerateHtml(variant, outcome))]
  /\ catch_answered' = catch_answered + 1
  /\ UNCHANGED <<variant, env_key, pc, app_created, console,
                 current_system_prompt, started, upstream_calls, last_post, fn_vars>>

Next ==
  \/ Startup
  \/ \E t \in Threads : GetChangePrompt(t)
  \/ \E t \in Threads, form \in Forms : PostChangePrompt(t, form)
  \/ \E t \in Threads, path \in RequestPaths : CatchAllReceive(t, path)
  \/ \E t \in Threads : CallUpstream(t)
  \/ \E t \in Threads : \E outcome \in Outcomes(variant) : UpstreamReturns(t, outcome)

Spec == Init /\ [][Next]_vars

\* C5: the sanitizer is idempotent: sanitising its own output changes nothing.
C5_Idempotent == fn_pc = "twice" => fn_res[2] = fn_res[1]

\* the text from the first occurrence of marker onward
FromFirst(t, marker) == SubSeq(t, Find(t, marker), Len(t))

\* C6: in each of the three variants the output is the fence-free text cut at
\* the first document-type marker, else at the first root tag, else unchanged.
C6_PrefixTrimAllVariants ==
  fn_pc # "in" =>
    LET t == RemoveFences(Strip(fn_arg))
        out == fn_res[1]
    IN  IF Contains(t, DOCTYPE) THEN out = FromFirst(t, DOCTYPE)
        ELSE IF Contains(t, HTML_TAG) THEN out = FromFirst(t, HTML_TAG)
        ELSE out = t

\* C7 as stated: a raw text holding neither document marker comes back
\* trimmed of surrounding whitespace and otherwise unchanged.
C7_NoMarkerTrimmedOnly ==
  (fn_pc # "in" /\ ~Contains(fn_arg, DOCTYPE) /\ ~Contains(fn_arg, HTML_TAG))
    => fn_res[1] = Strip(fn_arg)

\* C7 amended: when the trimmed text with its fence markers removed holds
\* neither document marker, the output is exactly that text (whitespace
\* trimmed, fence markers removed, nothing else changed); so a raw text with
\* no fence marker and no document marker comes back trimmed and unchanged.
C7_NoMarkerTrimmedFenceFree ==
  fn_pc # "in" =>
    LET t == RemoveFences(Strip(fn_arg))
    IN  /\ (~Contains(t, DOCTYPE) /\ ~Contains(t, HTML_TAG)) => fn_res[1] = t
        /\ (/\ ~Contains(fn_arg, FENCE)
            /\ ~Contains(fn_arg, DOCTYPE)
            /\ ~Contains(fn_arg, HTML_TAG)) => fn_res[1] = Strip(fn_arg)

\* C7 witness: a text with surrounding whitespace, a fence and no document
\* marker has been sanitised to a non-empty text
C7_Witness ==
  /\ fn_pc = "once"
  /\ fn_arg = <<" ">> \o FENCE \o <<"x">>
  /\ fn_res[1] = <<"x">>

----------------------------------------------------------------------------
(* Claims about the server.                                                *)

\* C1: once the process serves, the stored system prompt is never empty.
C1_PromptNonEmpty == pc = "serving" => Len(current_system_prompt) > 0

\* C1 witness: POSTs with an empty and with a missing new_prompt have been
\* answered
C1_Witness ==
  /\ pc = "serving"
  /\ req["t1"].pc = "done" /\ req["t1"].kind = "POST"
  /\ req["t1"].form = [present |-> TRUE, value |-> <<>>]
  /\ req["t2"].pc = "done" /\ req["t2"].kind = "POST"
  /\ req["t2"].form = [present |-> FALSE, value |-> <<>>]

\* thread t answers a request with the form page in this step
RendersForm(t) ==
  /\ req'[t].id = started' /\ started' # started
  /\ \/ req'[t].kind = "GET"
     \/ req'[t].kind = "POST" /\ ~Truthy(req'[t].form)

\* thread t composes the outbound prompt in this step
Composes(t) == req[t].pc = "compose" /\ req'[t].pc = "upstream"

\* every value the store can hold in this model
PromptValues ==
  {DefaultPrompt(variant)} \cup {f.value : f \in {g \in Forms : Truthy(g)}}

\* C2: after a POST has stored X, the form rendered next shows X verbatim,
\* and the prompt composed next holds X immediately followed by the
\* separator, and no other stored value in that place.
C2_ReadAfterWrite ==
  [][\A t \in Threads :
       /\ (last_post # <<>> /\ RendersForm(t))
            => Contains(req'[t].response.body, last_post)
       /\ (last_post # <<>> /\ Composes(t))
            => /\ Contains(UserContent(req'[t].sent), last_post \o SEPARATOR)
               /\ \A p \in PromptValues \ {last_post} :
                    ~Contains(UserContent(req'[t].sent), p \o SEPARATOR)]_vars

\* C2 witness: after a POST of X, one thread has rendered the form with X
\* and the other has sent a prompt holding X and the separator
C2_Witness ==
  /\ last_post = <<"X">>
  /\ req["t1"].pc = "done" /\ req["t1"].kind = "GET"
  /\ req["t1"].response.body = FormPage(<<"X">>)
  /\ req["t2"].pc = "upstream"
  /\ Contains(UserContent(req["t2"].sent), <<"X">> \o SEPARATOR)

\* thread t answers a POST whose new_prompt is non-empty in this step
PostsNonEmpty(t) ==
  /\ req'[t].id = started' /\ started' # started
  /\ req'[t].kind = "POST"
  /\ req'[t].form.present /\ req'[t].form.value # <<>>

\* C3: while the process serves, a step changes the stored prompt only if it
\* is a POST with a non-empty new_prompt, and then to exactly that value;
\* every other request, and every end of an upstream call, leaves it as it
\* was.
C3_OnlyNonEmptyPostWrites ==
  [][pc = "serving" =>
       /\ current_system_prompt' # current_system_prompt
            => \E t \in Threads :
                 PostsNonEmpty(t) /\ current_system_prompt' = req'[t].form.value
       /\ (\A t \in Threads : ~PostsNonEmpty(t))
            => current_system_prompt' = current_system_prompt]_vars

\* C3 witness: a stored value X has survived a POST with an empty new_prompt
\* and a failed catch-all request
C3_Witness ==
  /\ current_system_prompt = <<"X">>
  /\ req["t1"].pc = "done" /\ req["t1"].kind = "POST"
  /\ req["t1"].form = [present |-> TRUE, value |-> <<>>]
  /\ req["t2"].pc = "done" /\ req["t2"].kind = "catch"
  /\ req["t2"].outcome.kind = "raise"

\* C8: when the upstream returns the document wrapped in an html fence, the
\* response body is exactly the document and the content type is text/html.
C8_EndToEnd ==
  \A t \in Threads :
    (/\ req[t].pc = "done" /\ req[t].kind = "catch"
     /\ req[t].outcome.kind = "ok" /\ req[t].outcome.text = WRAPPED_DOC)
      => /\ req[t].response.body = HTML_DOC
         /\ req[t].response.mimetype = "text/html"

\* the failure detail the error page has to carry
FailureDetail(o) ==
  CASE o.kind = "raise" -> o.exc
    [] o.kind = "malformed" -> MalformedExcText(variant)
    [] o.kind = "status" -> <<o.code>>

\* C9: a catch-all request whose upstream call failed is answered with
\* status 200 and type text/html by a body that starts with the error
\* heading and carries the failure detail, and the process still serves.
C9_FailureContained ==
  \A t \in Threads :
    (/\ req[t].pc = "done" /\ req[t].kind = "catch"
     /\ req[t].outcome.kind \in {"raise", "malformed", "status"})
      => /\ req[t].response.status = 200
         /\ req[t].response.mimetype = "text/html"
         /\ StartsWith(req[t].response.body, ERROR_HEADING)
         /\ Contains(req[t].response.body, FailureDetail(req[t].outcome))
         /\ pc = "serving"

\* C9 witness: a request failed on an upstream status, and a later request
\* of the same process has been answered with a page
C9_Witness ==
  /\ req["t1"].pc = "done" /\ req["t1"].kind = "catch"
  /\ req["t1"].outcome.kind = "status" /\ req["t1"].outcome.code = "500"
  /\ req["t2"].pc = "done" /\ req["t2"].kind = "catch"
  /\ req["t2"].outcome.kind = "ok"
  /\ req["t2"].id > req["t1"].id

\* the key is absent, empty, or the literal the variant rejects
KeyMissing == ApiKey(env_key) = "" \/ ApiKey(env_key) = RejectedLiteral(variant)

\* C10: after the startup check, gemini and mercury with a missing key have
\* exited with no app created and no request received; groq with a missing
\* key has printed a warning and serves.
C10_StartupCheck ==
  (pc # "startup" /\ KeyMissing) =>
    IF variant \in {"gemini", "mercury"}
    THEN /\ pc = "exited"
         /\ ~app_created
         /\ started = 0
         /\ \A t \in Threads : req[t] = IdleReq
    ELSE /\ pc = "serving"
         /\ app_created
         /\ console = "warning"

\* C10 witness: groq started with no key and has answered a request
C10_Witness ==
  /\ variant = "groq"
  /\ ~env_key.set
  /\ console = "warning"
  /\ \E t \in Threads : req[t].pc = "done" /\ req[t].kind = "catch"

\* C10 second case reached: gemini given the placeholder key has exited
C10_PlaceholderExit ==
  /\ variant = "gemini"
  /\ env_key.value = PLACEHOLDER_KEY
  /\ pc = "exited"

\* C11: every catch-all request makes exactly one upstream call attempt,
\* whatever its end, and /change-prompt requests make none: the number of
\* attempts is the number of catch-all requests answered plus those whose
\* call is still open, so with no call open the two numbers are equal.
C11_OneCallPerCatchAll ==
  pc = "serving" =>
    /\ upstream_calls =
         catch_answered + Cardinality({t \in Threads : req[t].pc = "upstream"})
    /\ (\A t \in Threads : req[t].pc \in {"idle", "done"})
         => upstream_calls = catch_answered

\* C11 witness: a failed and a successful catch-all request and a POST have
\* been answered, with two calls made
C11_Witness ==
  /\ upstream_calls = 2
  /\ started = 3
  /\ req["t1"].pc = "done" /\ req["t1"].kind = "catch"
  /\ req["t1"].outcome.kind \in {"raise", "malformed", "status"}
  /\ req["t2"].pc = "done" /\ req["t2"].kind = "POST"

\* the text sent upstream, message after message
ContentsInOrder(sent) == Flatten([i \in 1..Len(sent) |-> sent[i].content])

\* C12: in every variant what is sent upstream is, in this order, the fixed
\* HTML-only instruction preamble, a stored system prompt, the separator and
\* the page prompt of the request.
C12_ComposerStructure ==
  \A t \in Threads :
    (req[t].kind = "catch" /\ req[t].pc \in {"upstream", "done"}) =>
      \E pre \in {GEMINI_PREAMBLE, GROQ_SYSTEM_MESSAGE} :
        \E p \in PromptValues :
          ContentsInOrder(req[t].sent)
            = pre \o p \o SEPARATOR \o PagePrompt(variant, PageName(req[t].path))

\* C12 in gemini and groq: the state the statement holds in
C12_HoldsOutsideMercury == variant # "mercury" => C12_ComposerStructure

----------------------------------------------------------------------------
(* Concurrent editor submissions: the POST branch of change_prompt taken   *)
(* statement by statement, so that several POSTs are in flight at once.    *)
(* The process has passed its startup check.                               *)

RaceInit ==
  /\ variant \in Variants
  /\ env_key \in {e \in EnvValues :
                    ~(KeyCheckFails(variant, ApiKey(e)) /\ ExitsOnBadKey(variant))}
  /\ pc = "serving"
  /\ app_created = TRUE
  /\ console = (IF KeyCheckFails(variant, ApiKey(env_key)) THEN "warning" ELSE "using")
  /\ current_system_prompt = DefaultPrompt(variant)
  /\ req = [t \in Threads |-> IdleReq]
  /\ started = 0
  /\ upstream_calls = 0
  /\ catch_answered = 0
  /\ last_post = <<>>
  /\ fn_arg = <<>>
  /\ fn_res = <<>>
  /\ fn_pc = "none"

\* new_prompt = request.form.get('new_prompt')
PostRead(t, form) ==
  /\ CanAccept(t)
  /\ started' = started + 1
  /\ req' = [req EXCEPT ![t] =
               [IdleReq EXCEPT !.pc = "post", !.id = started + 1, !.kind = "POST",
                  !.form = form]]
  /\ UNCHANGED <<variant, env_key, pc, app_created, console, current_system_prompt,
                 upstream_calls, catch_answered, last_post, fn_vars>>

\* if new_prompt: current_system_prompt = new_prompt
PostStore(t) ==
  /\ pc = "serving"
  /\ req[t].pc = "post"
  /\ current_system_prompt' = StoredAfterPost(current_system_prompt, req[t].form)
  /\ last_post' = IF req[t].form.present /\ req[t].form.value # <<>>
                  THEN req[t].form.value ELSE last_post
  /\ req' = [req EXCEPT ![t].pc = "stored"]
  /\ UNCHANGED <<variant, env_key, pc, app_created, console, started,
                 upstream_calls, catch_answered, fn_vars>>

\* the return of the confirmation page, or of the form page
PostReturn(t) ==
  /\ pc = "serving"
  /\ req[t].pc = "stored"
  /\ req' = [req EXCEPT ![t].pc = "done",
                        ![t].response =
                          IF Truthy(req[t].form) THEN HtmlResponse(CONFIRM_PAGE)
                          ELSE HtmlResponse(FormPage(current_system_prompt))]
  /\ UNCHANGED <<variant, env_key, pc, app_created, console, current_system_prompt,
                 started, upstream_calls, catch_answered, last_post, fn_vars>>

RaceNext ==
  \/ \E t \in Threads, form \in Forms : PostRead(t, form)
  \/ \E t \in Threads : PostStore(t)
  \/ \E t \in Threads : PostReturn(t)
  \/ \E t \in Threads : GetChangePrompt(t)

SpecRace == RaceInit /\ [][RaceNext]_vars

\* C13: under every interleaving of POSTs the stored prompt is the default
\* or the whole value of one POST, never empty and never a mix; it is the
\* value of the POST whose assignment ran last (the default before any),
\* also once all POSTs are answered; and every form rendered shows such a
\* whole value.
C13_LastWriterWins ==
  /\ current_system_prompt \in PromptValues
  /\ current_system_prompt # <<>>
  /\ current_system_prompt =
       (IF last_post = <<>> THEN DefaultPrompt(variant) ELSE last_post)
  /\ \A t \in Threads :
       (req[t].pc = "done" /\ req[t].kind = "GET")
         => \E p \in PromptValues : req[t].response.body = FormPage(p)

\* C13 witness: two POSTs with different values were in flight together; the
\* one that arrived first assigned last, and its value is the stored one
C13_Witness ==
  /\ req["t1"].pc = "done" /\ req["t1"].kind = "POST"
  /\ req["t2"].pc = "done" /\ req["t2"].kind = "POST"
  /\ req["t1"].id = 1 /\ req["t2"].id = 2
  /\ req["t1"].form.value = <<"X">>
  /\ req["t2"].form.value = <<" ", "Y", "Z">>
  /\ current_system_prompt = <<"X">>

\* s.endswith(p)
EndsWith(s, p) ==
  Len(p) <= Len(s) /\ SubSeq(s, Len(s) - Len(p) + 1, Len(s)) = p

\* C14: a catch-all request reads the stored prompt once, when it composes:
\* the prompt it sends holds the value stored at that step (so a POST applied
\* after the request arrived and before it composed is the one used); while
\* the call is open and after it, no step changes what was sent; the answer
\* is built from the end of the call alone; and an answered request is not
\* touched by later steps.
C14_ReadsOnceAtComposition ==
  [][\A t \in Threads :
       /\ Composes(t)
            => EndsWith(UserContent(req'[t].sent),
                        current_system_prompt \o SEPARATOR \o req[t].page_prompt)
       /\ (req[t].kind = "catch" /\ req[t].pc = "upstream")
            => /\ req'[t].sent = req[t].sent
               /\ req'[t].pc = "done"
                    => req'[t].response.body
                         = (IF req'[t].outcome.kind = "ok"
                            THEN Sanitize(variant, req'[t].outcome.text)
                            ELSE GenerateHtml(variant, req'[t].outcome))
       /\ (req[t].kind = "catch" /\ req[t].pc = "done" /\ req'[t].id = req[t].id)
            => req'[t] = req[t]]_vars

\* C14 witness: a POST of X was applied while an earlier catch-all request was
\* blocked in its call; the prompt that request sent still holds the default
C14_Witness ==
  /\ req["t1"].kind = "catch" /\ req["t1"].id = 1 /\ req["t1"].pc = "upstream"
  /\ req["t2"].kind = "POST" /\ req["t2"].id = 2 /\ req["t2"].pc = "done"
  /\ req["t2"].form.value = <<"X">>
  /\ current_system_prompt = <<"X">>
  /\ Contains(UserContent(req["t1"].sent), DefaultPrompt(variant) \o SEPARATOR)
  /\ ~Contains(UserContent(req["t1"].sent), <<"X">> \o SEPARATOR)

\* C14, the other order: the POST of X arrived after the catch-all request
\* and was applied before that request composed; the prompt sent holds X
C14_PostBeforeComposition ==
  /\ req["t1"].kind = "catch" /\ req["t1"].id = 1 /\ req["t1"].pc = "upstream"
  /\ req["t2"].kind = "POST" /\ req["t2"].id = 2 /\ req["t2"].pc = "done"
  /\ req["t2"].form.value = <<"X">>
  /\ Contains(UserContent(req["t1"].sent), <<"X">> \o SEPARATOR)

\* C15: whatever the raw text, the sanitised text holds no fence marker.
C15_NoFenceLeft == fn_pc # "in" => ~Contains(fn_res[1], FENCE)

\* C15 witness: a run of four backticks before a letter has been sanitised;
\* one backtick is left
C15_Witness ==
  /\ fn_pc = "once"
  /\ fn_arg = FENCE \o <<BT, "x">>
  /\ fn_res[1] = <<BT, "x">>

====
